---- MODULE Spec2Model ----
(***************************************************************************)
(* cfn_transform: the transform pipeline of CloudFormationTemplateTransform *)
(* (apply, _apply, _run_hook, map, resource_type_matches) and the recursive *)
(* merge _merge_dicts, modelled from src/cfn_transform.py.                  *)
(*                                                                         *)
(* Python values are tagged records [t, v]:                                *)
(*   dict       v = sequence of <<key, value>> pairs in insertion order    *)
(*   set, frozenset   v = a set of elements                                *)
(*   list       v = a sequence of elements                                 *)
(*   str        v = the text                                               *)
(*   int        v = an integer                                             *)
(*   none       None                                                       *)
(***************************************************************************)
EXTENDS Integers, Sequences, FiniteSets, TLC

VARIABLES
    given,      \* the template the driver's instance was constructed with
    defs,       \* the transform classes: what each instance's methods return
    heap,       \* the template objects (dicts), by identity
    template,   \* self.template of each transform instance: a template object
    applied,    \* self.applied of each transform instance
    stack,      \* the calls of apply() in progress, innermost last
    phase,      \* the driver's call of apply(): idle, running, returned, raised
    err,        \* the exception the driver's last call of apply() raised
    calls,      \* how many times the driver has called apply()
    log,        \* hooks and stages run by the driver's current or last call
    mp,         \* the locals of map(): iterator, remove, add, and what f did
    dict1,      \* _merge_dicts called directly: the target it was given
    dict2,      \* _merge_dicts called directly: the source it was given
    merged      \* _merge_dicts called directly: its outcome, or NotCalled

pipeVars == <<given, defs, heap, template, applied, stack, phase, err, calls, log, mp>>

mergeVars == <<dict1, dict2, merged>>

vars == <<given, defs, heap, template, applied, stack, phase, err, calls, log, mp,
          dict1, dict2, merged>>

-----------------------------------------------------------------------------
(* Python values *)

NoneV == [t |-> "none", v |-> 0]

IntV(n) == [t |-> "int", v |-> n]

StrV(s) == [t |-> "str", v |-> s]

SetV(s) == [t |-> "set", v |-> s]

FSetV(s) == [t |-> "frozenset", v |-> s]

ListV(s) == [t |-> "list", v |-> s]

Dict(items) == [t |-> "dict", v |-> items]

EmptyDict == Dict(<<>>)

IsDict(x) == x.t = "dict"

IsSetLike(x) == x.t \in {"set", "frozenset"}

IsList(x) == x.t = "list"

\* frozenset(value2): the elements of a set, a frozenset or a list
Elems(x) == IF IsList(x) THEN {x.v[i] : i \in 1..Len(x.v)} ELSE x.v

\* keys of a dict
Keys(d) == {d.v[i][1] : i \in 1..Len(d.v)}

\* key in d
Has(d, k) == k \in Keys(d)

\* d[k]
Get(d, k) == d.v[CHOOSE i \in 1..Len(d.v) : d.v[i][1] = k][2]

\* d[k] = val: an existing key keeps its place, a new key goes last
Put(d, k, val) ==
    IF Has(d, k)
    THEN Dict([i \in 1..Len(d.v) |-> IF d.v[i][1] = k THEN <<k, val>> ELSE d.v[i]])
    ELSE Dict(Append(d.v, <<k, val>>))

\* del d[k]
Del(d, k) ==
    LET Other(p) == p[1] # k
    IN Dict(SelectSeq(d.v, Other))

\* not x: Python truthiness of the value kinds modelled
Falsy(x) ==
    CASE x.t = "none" -> TRUE
      [] x.t = "int" -> x.v = 0
      [] x.t = "str" -> x.v = ""
      [] x.t \in {"set", "frozenset"} -> x.v = {}
      [] OTHER -> Len(x.v) = 0

RECURSIVE PyEq(_, _)
\* value1 == value2: dicts compare by content whatever the key order, a set
\* equals a frozenset with the same elements, a list never equals a set
PyEq(x, y) ==
    CASE IsDict(x) /\ IsDict(y) ->
            /\ Keys(x) = Keys(y)
            /\ \A k \in Keys(x) : PyEq(Get(x, k), Get(y, k))
      [] IsSetLike(x) /\ IsSetLike(y) -> x.v = y.v
      [] x.t = y.t /\ ~IsDict(x) /\ ~IsSetLike(x) -> x.v = y.v
      [] OTHER -> FALSE

-----------------------------------------------------------------------------
(* _merge_dicts *)

\* the outcome of a call: the target as the call left it, and the exception
Returned(d) == [err |-> "none", val |-> d, at |-> <<>>, kinds |-> <<>>]

MergeConflictDiscards(d, value1, value2, path) ==
    [err |-> "TypeError", val |-> EmptyDict, at |-> path, kinds |-> <<value1.t, value2.t>>]

\* raise TypeError("Cannot merge {} with {} at {}".format(type(value1),
\* type(value2), '/'.join(path))): `at` is the path that is joined
MergeConflict(d, value1, value2, path) ==
    [err |-> "TypeError", val |-> d, at |-> path, kinds |-> <<value1.t, value2.t>>]

SetUnionOverwrites(value1, value2) == [t |-> value1.t, v |-> Elems(value2)]

\* value1 | frozenset(value2): the result has the kind of the left operand
SetUnion(value1, value2) == [t |-> value1.t, v |-> value1.v \cup Elems(value2)]

\* the path handed to the recursive call for key: path+[key]
ChildPath(path, key) == Append(path, key)

InsertedDropped(d1, key, value2) == d1

\* dict1[key] = value2, for a key that dict1 lacks
Inserted(d1, key, value2) == Put(d1, key, value2)

RECURSIVE merge_items(_, _, _, _)
\* the loop of _merge_dicts from the i-th item of dict2 on
merge_items(d1, d2, i, path) ==
    IF i > Len(d2.v) THEN Returned(d1)
    ELSE
        LET key == d2.v[i][1]
            value2 == d2.v[i][2]
        IN  IF ~Has(d1, key) THEN merge_items(Inserted(d1, key, value2), d2, i + 1, path)
            ELSE
                LET value1 == Get(d1, key)
                IN  IF PyEq(value1, value2) THEN merge_items(d1, d2, i + 1, path)
                    ELSE IF IsDict(value1) /\ IsDict(value2) THEN
                        LET r == merge_items(value1, value2, 1, ChildPath(path, key))
                        IN  IF r.err # "none"
                            THEN [r EXCEPT !.val = Put(d1, key, r.val)]
                            ELSE merge_items(Put(d1, key, r.val), d2, i + 1, path)
                    ELSE IF IsSetLike(value1) /\ (IsSetLike(value2) \/ IsList(value2)) THEN
                        merge_items(Put(d1, key, SetUnion(value1, value2)), d2, i + 1, path)
                    ELSE MergeConflict(d1, value1, value2, path)

\* _merge_dicts(dict1, dict2, path=None)
merge_dicts(d1, d2) == merge_items(d1, d2, 1, <<>>)

-----------------------------------------------------------------------------
(* resource_type_matches *)

\* a compiled pattern, by the characters it looks for
RegexV(pattern) == [t |-> "regex", v |-> pattern]

\* a function of the resource type, by the types it answers True for
CallableV(accepted) == [t |-> "callable", v |-> accepted]

\* the characters of the resource types of the model
Spelling ==
    [s \in {"AX", "AY", "Z", "W"} |->
        CASE s = "AX" -> <<"A", "X">>
          [] s = "AY" -> <<"A", "Y">>
          [] s = "Z" -> <<"Z">>
          [] s = "W" -> <<"W">>]

\* resource_type_spec.search(resource_type) finds the pattern anywhere
Search(pattern, chars) ==
    \E i \in 1..(Len(chars) - Len(pattern) + 1) :
        SubSeq(chars, i, i + Len(pattern) - 1) = pattern

Answer(b) == [err |-> "none", val |-> b]

UnknownSpecIsNoMatch == Answer(FALSE)

\* raise TypeError("Unknown resource_type_spec {}")
UnknownSpec == [err |-> "TypeError", val |-> FALSE]

RECURSIVE resource_type_matches(_, _)
RECURSIVE any_matches(_, _, _)
\* any(cls.resource_type_matches(resource_type, spec) for spec in specs), from
\* the i-th spec on: stops at the first match, and at the first exception
any_matches(resource_type, specs, i) ==
    IF i > Len(specs) THEN Answer(FALSE)
    ELSE
        LET r == resource_type_matches(resource_type, specs[i])
        IN  IF r.err # "none" \/ r.val THEN r
            ELSE any_matches(resource_type, specs, i + 1)

resource_type_matches(resource_type, resource_type_spec) ==
    CASE resource_type_spec.t = "none" -> Answer(TRUE)
      [] resource_type_spec.t = "str" -> Answer(PyEq(resource_type, resource_type_spec))
      [] resource_type_spec.t = "regex" ->
            Answer(Search(resource_type_spec.v, Spelling[resource_type.v]))
      [] resource_type_spec.t = "callable" -> Answer(resource_type.v \in resource_type_spec.v)
      [] resource_type_spec.t = "list" -> any_matches(resource_type, resource_type_spec.v, 1)
      [] OTHER -> UnknownSpec

-----------------------------------------------------------------------------
(* The transform instances *)

\* the instance the driver applies, and the instances its subtransformers() gives
Insts == {"P", "T1", "T2"}

DocIds == {"d1", "d2"}

dict_fields == <<"Metadata", "Parameters", "Mappings", "Conditions", "Resources", "Outputs">>

HookNames ==
    { "at_start", "before_subtransformers", "after_subtransformers", "before_sections",
      "after_sections", "before_process_resource", "after_process_resource", "at_end" }

\* the innermost call of apply() in progress
Top == stack[Len(stack)]

Self == Top.inst

SelfDef == defs[Self]

\* self.template
SelfTemplate == heap[template[Self]]

At(pc) == stack # <<>> /\ Top.pc = pc

Goto(pc) == stack' = [stack EXCEPT ![Len(stack)].pc = pc]

SetTemplate(doc) == heap' = [heap EXCEPT ![template[Self]] = doc]

Event(inst, what) == [who |-> inst, what |-> what]

\* an exception leaves every call of apply() in progress
Raise(kind) ==
    /\ stack' = <<>>
    /\ phase' = "raised"
    /\ err' = kind

Frame(inst) == [inst |-> inst, pc |-> "at_start", i |-> 1]

ApplyRejectsNever(flag) == FALSE

ApplyRejectsOnceCalled(flag) == flag \/ calls > 0

\* apply: if self.applied: raise RuntimeError("Transform applied more than once")
ApplyRejects(flag) == flag

\* _run_hook(*args): the update_<name> methods the instance has, in the order given
run_hook(inst, names) ==
    LET Defined(name) == name \in defs[inst].hooks
        found == SelectSeq(names, Defined)
    IN  [k \in 1..Len(found) |-> Event(inst, found[k])]

StartHooksSwapped == <<"before_subtransformers", "at_start">>

\* the names of the first _run_hook call of _apply
StartHooks == <<"at_start", "before_subtransformers">>

-----------------------------------------------------------------------------
(* The section steps of _apply *)

Done(doc) == [err |-> "none", doc |-> doc]

Failed(kind, doc) == [err |-> kind, doc |-> doc]

\* desc = self.Description(); if desc is not None: self.template['Description'] = desc
set_description(doc, desc) ==
    IF desc # NoneV THEN Put(doc, "Description", desc) ELSE doc

\* transforms = self.Transform(); if transforms: ... append or extend
add_transforms(doc, transforms) ==
    IF Falsy(transforms) THEN Done(doc)
    ELSE
        LET d == IF ~Has(doc, "Transform") THEN Put(doc, "Transform", ListV(<<>>)) ELSE doc
            cur == Get(d, "Transform")
        IN  IF ~IsList(cur) THEN Failed("AttributeError", d)
            ELSE IF transforms.t = "str"
                 THEN Done(Put(d, "Transform", ListV(Append(cur.v, transforms.v))))
                 ELSE Done(Put(d, "Transform", ListV(cur.v \o transforms.v)))

RECURSIVE merge_fields(_, _, _)
\* for field in dict_fields: ..., from the i-th field on
merge_fields(doc, def, i) ==
    IF i > Len(dict_fields) THEN Done(doc)
    ELSE
        LET field == dict_fields[i]
            d == IF ~Has(doc, field) THEN Put(doc, field, EmptyDict) ELSE doc
            value == def.sections[field]
            r == merge_dicts(Get(d, field), value)
        IN  IF r.err # "none" THEN Failed(r.err, Put(d, field, r.val))
            ELSE merge_fields(Put(d, field, r.val), def, i + 1)

\* lines 162-181 of _apply
sections(doc, def) ==
    LET t == add_transforms(set_description(doc, def.desc), def.transforms)
    IN  IF t.err # "none" THEN t ELSE merge_fields(t.doc, def, 1)

CleanupFieldsDictOnly == dict_fields

CleanupFieldsSparingResources ==
    <<"Metadata", "Parameters", "Mappings", "Conditions", "Outputs", "Description", "Transform">>

\* dict_fields + ['Description', 'Transform']
cleanup_fields == dict_fields \o <<"Description", "Transform">>

RECURSIVE cleanup_from(_, _)
\* for field in dict_fields + ['Description', 'Transform']: if field in
\* self.template and not self.template[field]: del self.template[field]
cleanup_from(doc, fields) ==
    IF fields = <<>> THEN doc
    ELSE
        LET field == Head(fields)
        IN  IF Has(doc, field) /\ Falsy(Get(doc, field))
            THEN cleanup_from(Del(doc, field), Tail(fields))
            ELSE cleanup_from(doc, Tail(fields))

cleanup(doc) == cleanup_from(doc, cleanup_fields)

-----------------------------------------------------------------------------
(* map *)

\* no call of map() yet; f is what process_resource has been seen to do with
\* each logical id (it does the same whenever it is given that id again)
MapIdle ==
    [ state |-> "idle", used |-> 0, pos |-> 1, remove |-> <<>>, add |-> EmptyDict,
      start |-> EmptyDict, fcalls |-> <<>>, f |-> <<>> ]

\* the locals of map() when its loop starts on resources
MapStart(resources, f) ==
    [ state |-> "iterating", used |-> Len(resources.v), pos |-> 1, remove |-> <<>>,
      add |-> EmptyDict, start |-> resources, fcalls |-> <<>>, f |-> f ]

RECURSIVE update(_, _, _)
\* add.update(new): every item of new is stored, a stored key is overwritten
update(add, new, i) ==
    IF i > Len(new.v) THEN add
    ELSE update(Put(add, new.v[i][1], new.v[i][2]), new, i + 1)

AccumulatedFirstWins(add, new_resources) ==
    IF Falsy(new_resources) THEN add ELSE update(new_resources, add, 1)

\* add.update(new_resources or {})
Accumulated(add, new_resources) ==
    IF Falsy(new_resources) THEN add ELSE update(add, new_resources, 1)

RECURSIVE delete_all(_, _)
\* for logical_id in remove: del resources[logical_id]
delete_all(resources, remove) ==
    IF remove = <<>> THEN [err |-> "none", val |-> resources]
    ELSE IF ~Has(resources, Head(remove)) THEN [err |-> "KeyError", val |-> resources]
    ELSE delete_all(Del(resources, Head(remove)), Tail(remove))

\* the second half of map(): the deletions, then _merge_dicts(resources, add)
map_finish_keeps(resources, remove, add) ==
    LET r == merge_dicts(resources, add) IN [err |-> r.err, val |-> r.val]

map_finish_adds_first(resources, remove, add) ==
    LET r == merge_dicts(resources, add)
    IN  IF r.err # "none" THEN [err |-> r.err, val |-> r.val]
        ELSE delete_all(r.val, remove)

map_finish(resources, remove, add) ==
    LET d == delete_all(resources, remove)
    IN  IF d.err # "none" THEN d
        ELSE LET r == merge_dicts(d.val, add) IN [err |-> r.err, val |-> r.val]

\* what one call of process_resource(logical_id, resource) does: whether it
\* empties the resource it is given, what it returns, and whether it writes to
\* the Resources mapping itself (adds an entry, or deletes the entry it is given)
NewId == "RNew"

ResourceOf(type) == Dict(<< <<"Type", StrV(type)>> >>)

Additions ==
    { NoneV,
      Dict(<< <<"R3", ResourceOf("Z")>> >>),
      Dict(<< <<"R3", ResourceOf("W")>> >>),
      Dict(<< <<"R2", Dict(<< <<"Type", StrV("AY")>>, <<"Extra", IntV(1)>> >>)>> >>),
      Dict(<< <<"R1", ResourceOf("Z")>> >>) }

FOutcomes ==
    [clear : BOOLEAN, ret : Additions, mut : {"none"}]
        \cup [clear : {FALSE}, ret : {NoneV}, mut : {"add", "del"}]

\* what f may do with logical_id, given what it has been seen to do
FChoices(f, logical_id) ==
    IF Has(Dict(f), logical_id) THEN {Get(Dict(f), logical_id)} ELSE FOutcomes

\* the Resources mapping after f(logical_id, resource) did o
AfterF(resources, logical_id, o) ==
    LET r == IF o.clear THEN Put(resources, logical_id, EmptyDict) ELSE resources
    IN  CASE o.mut = "add" -> Put(r, NewId, ResourceOf("Z"))
          [] o.mut = "del" -> Del(r, logical_id)
          [] OTHER -> r

-----------------------------------------------------------------------------
(* apply and _apply, step by step *)

\* calls of apply() the driver makes on its instance
MaxCalls == 2

\* the driver calls apply() on its instance
Apply ==
    /\ stack = <<>>
    /\ calls < MaxCalls
    /\ calls' = calls + 1
    /\ log' = <<>>
    /\ IF ApplyRejects(applied["P"])
       THEN /\ phase' = "raised"
            /\ err' = "RuntimeError"
            /\ stack' = stack
       ELSE /\ phase' = "running"
            /\ err' = "none"
            /\ stack' = <<Frame("P")>>
    /\ mp' = [MapIdle EXCEPT !.f = mp.f]
    /\ UNCHANGED <<given, defs, heap, template, applied, mergeVars>>

\* self._run_hook('at_start', 'before_subtransformers')
RunHooksAtStart ==
    /\ At("at_start")
    /\ log' = log \o run_hook(Self, StartHooks)
    /\ Goto("subtransformers")
    /\ UNCHANGED <<given, defs, heap, template, applied, phase, err, calls, mp, mergeVars>>

SubTemplateInitial(e, self) == IF e.kind = "class" THEN "d1" ELSE template[e.inst]

\* the template of the subtransformer: a class is instantiated on
\* self.template, an instance holds the template it was constructed with
SubTemplate(e, self) == IF e.kind = "class" THEN template[self] ELSE template[e.inst]

\* one turn of the loop over self.subtransformers(), up to the call of
\* subtransformer.apply()
ApplySubtransformer ==
    /\ At("subtransformers")
    /\ Top.i <= Len(SelfDef.subs)
    /\ LET e == SelfDef.subs[Top.i]
           isclass == e.kind = "class"
           tmpl == [template EXCEPT ![e.inst] = SubTemplate(e, Self)]
           appl == IF isclass THEN [applied EXCEPT ![e.inst] = FALSE] ELSE applied
       IN  /\ template' = tmpl
           /\ applied' = appl
           /\ IF ApplyRejects(appl[e.inst])
              THEN Raise("RuntimeError")
              ELSE /\ stack' = Append(stack, Frame(e.inst))
                   /\ UNCHANGED <<phase, err>>
    /\ UNCHANGED <<given, defs, heap, calls, log, mp, mergeVars>>

\* the loop over self.subtransformers() is over
SubtransformersDone ==
    /\ At("subtransformers")
    /\ Top.i > Len(SelfDef.subs)
    /\ log' = Append(log, Event(Self, "subtransformers"))
    /\ Goto("after_subtransformers")
    /\ UNCHANGED <<given, defs, heap, template, applied, phase, err, calls, mp, mergeVars>>

\* self._run_hook('after_subtransformers', 'before_sections')
RunHooksBeforeSections ==
    /\ At("after_subtransformers")
    /\ log' = log \o run_hook(Self, <<"after_subtransformers", "before_sections">>)
    /\ Goto("sections")
    /\ UNCHANGED <<given, defs, heap, template, applied, phase, err, calls, mp, mergeVars>>

\* Description, Transform and the merge of the six dict fields
Sections ==
    /\ At("sections")
    /\ LET r == sections(SelfTemplate, SelfDef)
       IN  /\ SetTemplate(r.doc)
           /\ log' = Append(log, Event(Self, "sections"))
           /\ IF r.err # "none"
              THEN Raise(r.err)
              ELSE Goto("cleanup") /\ UNCHANGED <<phase, err>>
    /\ UNCHANGED <<given, defs, template, applied, calls, mp, mergeVars>>

\* the loop that deletes the empty fields
Cleanup ==
    /\ At("cleanup")
    /\ SetTemplate(cleanup(SelfTemplate))
    /\ log' = Append(log, Event(Self, "cleanup"))
    /\ Goto("after_sections")
    /\ UNCHANGED <<given, defs, template, applied, phase, err, calls, mp, mergeVars>>

\* self._run_hook('after_sections', 'before_process_resource')
RunHooksAfterSections ==
    /\ At("after_sections")
    /\ log' = log \o run_hook(Self, <<"after_sections", "before_process_resource">>)
    /\ Goto("process_resource")
    /\ UNCHANGED <<given, defs, heap, template, applied, phase, err, calls, mp, mergeVars>>

\* if hasattr(self, 'process_resource'): self.map(self.template['Resources'], ...)
ProcessResource ==
    /\ At("process_resource")
    /\ IF ~SelfDef.process_resource
       THEN Goto("after_process_resource") /\ UNCHANGED <<phase, err, mp>>
       ELSE IF ~Has(SelfTemplate, "Resources")
       THEN Raise("KeyError") /\ UNCHANGED mp
       ELSE /\ mp' = MapStart(Get(SelfTemplate, "Resources"), mp.f)
            /\ Goto("map")
            /\ UNCHANGED <<phase, err>>
    /\ UNCHANGED <<given, defs, heap, template, applied, calls, log, mergeVars>>

\* the Resources mapping that map() was given
MapResources == Get(SelfTemplate, "Resources")

\* the iterator of six.iteritems(resources) gives the next pair
MapVisit ==
    /\ At("map")
    /\ Len(MapResources.v) = mp.used
    /\ mp.pos <= Len(MapResources.v)
    /\ LET logical_id == MapResources.v[mp.pos][1]
           resource == MapResources.v[mp.pos][2]
           m == IF Has(resource, "Type")
                THEN resource_type_matches(Get(resource, "Type"), SelfDef.spec)
                ELSE [err |-> "KeyError", val |-> FALSE]
       IN  IF m.err # "none"
           THEN /\ Raise(m.err)
                /\ mp' = [mp EXCEPT !.state = "failed"]
                /\ heap' = heap
           ELSE IF ~m.val
           THEN /\ mp' = [mp EXCEPT !.pos = @ + 1]
                /\ UNCHANGED <<heap, stack, phase, err>>
           ELSE \E o \in FChoices(mp.f, logical_id) :
                /\ SetTemplate(Put(SelfTemplate, "Resources",
                                   AfterF(MapResources, logical_id, o)))
                /\ mp' = [mp EXCEPT
                            !.pos = @ + 1,
                            !.add = Accumulated(@, o.ret),
                            !.remove = IF o.clear THEN Append(@, logical_id) ELSE @,
                            !.fcalls = Append(@, [id |-> logical_id, o |-> o]),
                            !.f = Put(Dict(@), logical_id, o).v]
                /\ UNCHANGED <<stack, phase, err>>
    /\ UNCHANGED <<given, defs, template, applied, calls, log, mergeVars>>

\* the iterator finds the size of the mapping changed: RuntimeError("dictionary
\* changed size during iteration")
MapIterationFails ==
    /\ At("map")
    /\ Len(MapResources.v) # mp.used
    /\ Raise("RuntimeError")
    /\ mp' = [mp EXCEPT !.state = "failed"]
    /\ UNCHANGED <<given, defs, heap, template, applied, calls, log, mergeVars>>

\* the loop of map() is over: the deletions, then the merge of the additions
MapFinish ==
    /\ At("map")
    /\ Len(MapResources.v) = mp.used
    /\ mp.pos > Len(MapResources.v)
    /\ LET r == map_finish(MapResources, mp.remove, mp.add)
       IN  /\ SetTemplate(Put(SelfTemplate, "Resources", r.val))
           /\ log' = Append(log, Event(Self, "process_resource"))
           /\ IF r.err # "none"
              THEN Raise(r.err) /\ mp' = [mp EXCEPT !.state = "failed"]
              ELSE /\ Goto("after_process_resource")
                   /\ mp' = [mp EXCEPT !.state = "done"]
                   /\ UNCHANGED <<phase, err>>
    /\ UNCHANGED <<given, defs, template, applied, calls, mergeVars>>

\* self._run_hook('after_process_resource')
RunHookAfterProcessResource ==
    /\ At("after_process_resource")
    /\ log' = log \o run_hook(Self, <<"after_process_resource">>)
    /\ Goto("at_end")
    /\ UNCHANGED <<given, defs, heap, template, applied, phase, err, calls, mp, mergeVars>>

\* self._run_hook('at_end')
RunHookAtEnd ==
    /\ At("at_end")
    /\ log' = log \o run_hook(Self, <<"at_end">>)
    /\ Goto("return")
    /\ UNCHANGED <<given, defs, heap, template, applied, phase, err, calls, mp, mergeVars>>

\* _apply has returned: self.applied = True; return self.template. The caller
\* of a subtransformer stores what it returns in its own self.template
Return ==
    /\ At("return")
    /\ applied' = [applied EXCEPT ![Self] = TRUE]
    /\ IF Len(stack) = 1
       THEN /\ stack' = <<>>
            /\ phase' = "returned"
            /\ template' = template
       ELSE LET caller == stack[Len(stack) - 1]
            IN  /\ template' = [template EXCEPT ![caller.inst] = template[Self]]
                /\ stack' = Append(SubSeq(stack, 1, Len(stack) - 2),
                                   [caller EXCEPT !.i = @ + 1])
                /\ phase' = phase
    /\ UNCHANGED <<given, defs, heap, err, calls, log, mp, mergeVars>>

\* no direct call of _merge_dicts has been made
NotCalled == [err |-> "pending", val |-> EmptyDict, at |-> <<>>, kinds |-> <<>>]

-----------------------------------------------------------------------------
(* The templates and the transform classes of the model *)

\* a field the template does not have
Absent == [t |-> "absent", v |-> 0]

With(doc, field, x) == IF x = Absent THEN doc ELSE Put(doc, field, x)

\* Description and Transform of the template: absent, plain, a list, empty
HeadChoices ==
    { <<Absent, Absent>>,
      <<StrV("d0"), StrV("t0")>>,
      <<StrV("d0"), ListV(<<"t0">>)>>,
      <<StrV(""), ListV(<<>>)>> }

\* the five dict fields other than Resources: all absent, all empty, or each
\* with one entry
FillChoices == {Absent, EmptyDict, Dict(<< <<"e0", IntV(1)>> >>)}

ResourcesChoices ==
    { Absent,
      EmptyDict,
      Dict(<< <<"R1", ResourceOf("AX")>> >>),
      Dict(<< <<"R1", ResourceOf("AX")>>, <<"R2", ResourceOf("AY")>> >>) }

TemplateOf(head, fill, res) ==
    With(With(With(With(With(With(With(With(EmptyDict,
        "Description", head[1]),
        "Metadata", fill),
        "Parameters", fill),
        "Resources", res),
        "Mappings", fill),
        "Conditions", fill),
        "Outputs", fill),
        "Transform", head[2])

Templates ==
    {TemplateOf(head, fill, res) :
        head \in HeadChoices, fill \in FillChoices, res \in ResourcesChoices}

\* the template a ready-made subtransformer instance may hold instead of the
\* parent's
OtherTemplate == Dict(<< <<"Outputs", Dict(<< <<"OX", IntV(9)>> >>)>> >>)

NoSections == [f \in {dict_fields[i] : i \in 1..Len(dict_fields)} |-> EmptyDict]

\* the class that overrides nothing
BaseDef ==
    [ hooks |-> {}, subs |-> <<>>, desc |-> NoneV, transforms |-> NoneV,
      sections |-> NoSections, process_resource |-> FALSE, spec |-> NoneV ]

\* the classes of the subtransformers: each adds one entry to Outputs
SubDef(inst) ==
    IF inst = "T1"
    THEN [BaseDef EXCEPT
            !.hooks = {"at_start", "at_end"},
            !.sections = [NoSections EXCEPT !["Outputs"] = Dict(<< <<"O1", IntV(1)>> >>)]]
    ELSE [BaseDef EXCEPT
            !.sections = [NoSections EXCEPT !["Outputs"] = Dict(<< <<"O2", IntV(2)>> >>)]]

SubClass(inst) == [kind |-> "class", inst |-> inst, doc |-> "d1"]

SubInstance(inst, doc) == [kind |-> "instance", inst |-> inst, doc |-> doc]

\* what subtransformers() may return
SubLists ==
    { <<>>,
      <<SubClass("T1")>>,
      <<SubClass("T1"), SubClass("T2")>>,
      <<SubInstance("T1", "d1"), SubInstance("T2", "d1")>>,
      <<SubInstance("T1", "d2")>>,
      <<SubInstance("T1", "d2"), SubClass("T2")>>,
      <<SubClass("T1"), SubInstance("T2", "d2")>>,
      <<SubInstance("T1", "d1"), SubInstance("T1", "d1")>> }

HookChoices == { {}, HookNames, {"at_start", "after_sections", "at_end"} }

\* what Description() and Transform() may return
HeadProviders ==
    { <<NoneV, NoneV>>,
      <<StrV("d1"), StrV("t1")>>,
      <<NoneV, ListV(<<"t1", "t2">>)>>,
      <<StrV(""), ListV(<<>>)>> }

\* what the six dict-field methods may return
SectionProviders ==
    { NoSections,
      [NoSections EXCEPT !["Outputs"] = Dict(<< <<"OP", IntV(1)>> >>)],
      [NoSections EXCEPT !["Resources"] = Dict(<< <<"R3", ResourceOf("Z")>> >>)],
      [NoSections EXCEPT !["Metadata"] = Dict(<< <<"e0", IntV(2)>> >>),
                         !["Outputs"] = Dict(<< <<"OP", IntV(1)>> >>)],
      [f \in DOMAIN NoSections |-> Dict(<< <<"e1", IntV(1)>> >>)] }

\* PROCESS_RESOURCE_TYPE_SPEC
TypeSpecs ==
    { NoneV,
      StrV("AX"),
      RegexV(<<"A">>),
      RegexV(<<"X">>),
      CallableV({"AY"}),
      ListV(<<StrV("Z"), RegexV(<<"Y">>)>>),
      ListV(<<StrV("AX"), IntV(5)>>),
      ListV(<<>>),
      IntV(5) }

\* classes without process_resource: hooks and subtransformers, or sections
SectionDefs ==
    {[BaseDef EXCEPT !.hooks = h, !.subs = s] : h \in HookChoices, s \in SubLists}
    \cup {[BaseDef EXCEPT !.desc = hp[1], !.transforms = hp[2], !.sections = sp] :
            hp \in HeadProviders, sp \in SectionProviders}

\* classes with process_resource
ProcessDefs ==
    {[BaseDef EXCEPT !.process_resource = TRUE, !.hooks = h, !.subs = s] :
        h \in {{}, HookNames}, s \in {<<>>, <<SubClass("T1")>>}}
    \cup {[BaseDef EXCEPT !.process_resource = TRUE, !.spec = ts, !.sections = sp] :
            ts \in TypeSpecs, sp \in {NoSections, [NoSections EXCEPT
                                        !["Resources"] = Dict(<< <<"R3", ResourceOf("Z")>> >>)]}}

\* the templates given to the classes with process_resource
ResourceTemplates ==
    {TemplateOf(<<Absent, Absent>>, fill, res) :
        fill \in {Absent, Dict(<< <<"e0", IntV(1)>> >>)}, res \in ResourcesChoices}

\* section methods whose merge stops in Mappings when the template already has
\* e0 there: Metadata comes before it, Outputs after it
StoppingSections ==
    [NoSections EXCEPT
        !["Metadata"] = Dict(<< <<"e1", IntV(1)>> >>),
        !["Mappings"] =
            Dict(<< <<"e1", IntV(1)>>,
                    <<"e0", Dict(<< <<"n1", IntV(5)>>, <<"n0", IntV(2)>>, <<"n2", IntV(6)>> >>)>>,
                    <<"e2", IntV(3)>> >>),
        !["Outputs"] = Dict(<< <<"OP", IntV(1)>> >>)]

\* classes with every hook and these section methods, with or without
\* process_resource
StoppingDefs ==
    {[BaseDef EXCEPT !.hooks = HookNames, !.sections = StoppingSections,
                     !.process_resource = pr] : pr \in BOOLEAN}

\* the templates given to them: the five dict fields absent, with a plain
\* entry e0, or with a nested mapping at e0
StoppingTemplates ==
    {TemplateOf(<<Absent, Absent>>, fill, res) :
        fill \in {Absent, Dict(<< <<"e0", IntV(1)>> >>),
                  Dict(<< <<"e0", Dict(<< <<"n0", IntV(1)>> >>)>> >>)},
        res \in {Absent, Dict(<< <<"R1", ResourceOf("AX")>> >>)}}

\* the class of the instance the driver applies, and the template it is given
Scenarios ==
    (SectionDefs \X Templates) \cup (ProcessDefs \X ResourceTemplates)
        \cup (StoppingDefs \X StoppingTemplates)

\* the template a ready-made instance was constructed with
InstanceTemplate(def, inst) ==
    LET own == {k \in 1..Len(def.subs) : def.subs[k].kind = "instance" /\ def.subs[k].inst = inst}
    IN  IF own = {} THEN "d1" ELSE def.subs[CHOOSE k \in own : TRUE].doc

MergeIdle ==
    /\ dict1 = EmptyDict
    /\ dict2 = EmptyDict
    /\ merged = NotCalled

\* __init__: the driver's instance is constructed on template d1
Init ==
    /\ \E sc \in Scenarios :
        /\ defs = [inst \in Insts |-> IF inst = "P" THEN sc[1] ELSE SubDef(inst)]
        /\ template = [inst \in Insts |->
                         IF inst = "P" THEN "d1" ELSE InstanceTemplate(sc[1], inst)]
        /\ heap = [id \in DocIds |-> IF id = "d1" THEN sc[2] ELSE OtherTemplate]
        /\ given = sc[2]
    /\ applied = [inst \in Insts |-> FALSE]
    /\ stack = <<>>
    /\ phase = "idle"
    /\ err = "none"
    /\ calls = 0
    /\ log = <<>>
    /\ mp = MapIdle
    /\ MergeIdle

Next ==
    \/ Apply
    \/ RunHooksAtStart
    \/ ApplySubtransformer
    \/ SubtransformersDone
    \/ RunHooksBeforeSections
    \/ Sections
    \/ Cleanup
    \/ RunHooksAfterSections
    \/ ProcessResource
    \/ MapVisit
    \/ MapIterationFails
    \/ MapFinish
    \/ RunHookAfterProcessResource
    \/ RunHookAtEnd
    \/ Return

Spec == Init /\ [][Next]_vars

-----------------------------------------------------------------------------
(* _merge_dicts called directly on bounded inputs *)

\* nesting levels of the dicts handed to _merge_dicts
NestDepth == 3

\* the key that holds the nested dict at each level, outermost first
PathKeys == <<"a", "b", "c", "d", "e">>

SideKey == "k"

Leaves ==
    { IntV(1), IntV(2), SetV({"p"}), SetV({"q"}), FSetV({"p", "q"}),
      ListV(<<"q", "p", "q">>) }

RECURSIVE NestedDicts(_)
\* dicts of the levels below the top (level counts from the innermost, 1):
\* empty, or one item under the level's path key or under the side key
NestedDicts(level) ==
    LET key == PathKeys[NestDepth - level + 1]
        below == IF level = 1 THEN Leaves ELSE Leaves \cup NestedDicts(level - 1)
    IN  {EmptyDict}
            \cup {Dict(<< <<key, x>> >>) : x \in below}
            \cup {Dict(<< <<SideKey, x>> >>) : x \in Leaves}

\* the dicts handed to _merge_dicts: up to two items, in either order
TopDicts ==
    LET key == PathKeys[1]
        below == IF NestDepth = 1 THEN Leaves ELSE Leaves \cup NestedDicts(NestDepth - 1)
    IN  {EmptyDict}
            \cup {Dict(<< <<key, x>> >>) : x \in below}
            \cup {Dict(<< <<SideKey, y>> >>) : y \in Leaves}
            \cup {Dict(<< <<key, x>>, <<SideKey, y>> >>) : x \in below, y \in Leaves}
            \cup {Dict(<< <<SideKey, y>>, <<key, x>> >>) : x \in below, y \in Leaves}

MergeInit ==
    /\ dict1 \in TopDicts
    /\ dict2 \in TopDicts
    /\ merged = NotCalled
    /\ given = EmptyDict
    /\ defs = [inst \in Insts |-> BaseDef]
    /\ heap = [id \in DocIds |-> EmptyDict]
    /\ template = [inst \in Insts |-> "d1"]
    /\ applied = [inst \in Insts |-> FALSE]
    /\ stack = <<>>
    /\ phase = "idle"
    /\ err = "none"
    /\ calls = 0
    /\ log = <<>>
    /\ mp = MapIdle

\* _merge_dicts(dict1, dict2)
MergeCall ==
    /\ merged = NotCalled
    /\ merged' = merge_dicts(dict1, dict2)
    /\ UNCHANGED <<dict1, dict2>>
    /\ UNCHANGED pipeVars

MergeNext == MergeCall

MergeSpec == MergeInit /\ [][MergeNext]_vars

-----------------------------------------------------------------------------
(* Properties of _merge_dicts *)

MergeDone == merged # NotCalled

\* the two values at a shared key can be merged without a conflict
RECURSIVE NonConflicting(_, _)
NonConflicting(A, B) ==
    \A k \in Keys(A) \cap Keys(B) :
        LET a == Get(A, k)
            b == Get(B, k)
        IN  \/ PyEq(a, b)
            \/ IsDict(a) /\ IsDict(b) /\ NonConflicting(a, b)
            \/ IsSetLike(a) /\ (IsSetLike(b) \/ IsList(b))

\* R is the key-by-key union of A and B
RECURSIVE IsUnionOf(_, _, _)
IsUnionOf(R, A, B) ==
    /\ IsDict(R)
    /\ Keys(R) = Keys(A) \cup Keys(B)
    /\ Len(R.v) = Cardinality(Keys(R))
    /\ \A k \in Keys(R) :
        IF k \notin Keys(B) THEN Get(R, k) = Get(A, k)
        ELSE IF k \notin Keys(A) THEN Get(R, k) = Get(B, k)
        ELSE
            LET a == Get(A, k)
                b == Get(B, k)
            IN  IF PyEq(a, b) THEN Get(R, k) = a
                ELSE IF IsDict(a) /\ IsDict(b) THEN IsUnionOf(Get(R, k), a, b)
                ELSE IsSetLike(Get(R, k)) /\ Get(R, k).v = a.v \cup Elems(b)

\* C6: for mappings A and B that do not conflict, merge(A, B) returns the
\* recursive key-by-key union of A and B (keys only in B inserted, keys only in
\* A kept, shared mappings merged recursively), and merge(A, {}) leaves A as it
\* was.
C6_MergeIsUnion ==
    (MergeDone /\ NonConflicting(dict1, dict2)) =>
        /\ merged.err = "none"
        /\ IsUnionOf(merged.val, dict1, dict2)
        /\ (dict2 = EmptyDict => merged.val = dict1)

\* a merge that inserted a key, kept a key and recursed into a shared mapping
C6_Witness ==
    /\ MergeDone
    /\ NonConflicting(dict1, dict2)
    /\ Keys(dict1) = {"a", "k"}
    /\ Keys(dict2) = {"a"}
    /\ IsDict(Get(dict1, "a")) /\ IsDict(Get(dict2, "a"))
    /\ Keys(Get(dict1, "a")) = {"k"}
    /\ Keys(Get(dict2, "a")) = {"b"}
    /\ Keys(Get(merged.val, "a")) = {"b", "k"}

\* the paths (each with its last key) at which A and B hold conflicting values
RECURSIVE ConflictPaths(_, _, _)
ConflictPaths(A, B, prefix) ==
    UNION { LET a == Get(A, k)
                b == Get(B, k)
            IN  IF PyEq(a, b) THEN {}
                ELSE IF IsDict(a) /\ IsDict(b) THEN ConflictPaths(a, b, Append(prefix, k))
                ELSE IF IsSetLike(a) /\ (IsSetLike(b) \/ IsList(b)) THEN {}
                ELSE {Append(prefix, k)}
          : k \in Keys(A) \cap Keys(B) }

\* C7: a conflict makes merge fail with an error that identifies the path to
\* the conflicting key, that key included: merge({"a": 1}, {"a": 2}) names the
\* path "a", a conflict at key c under a, b names a.b.c.
C7_ConflictNamesKey ==
    (MergeDone /\ ConflictPaths(dict1, dict2, <<>>) # {}) =>
        /\ merged.err = "TypeError"
        /\ merged.at \in ConflictPaths(dict1, dict2, <<>>)

\* C9: for set-like S1 and S2 at the same key k, merge({k: S1}, {k: S2}) puts
\* the union of S1 and S2 at k, and the result is the same whether S2 is given
\* as a set or as a sequence with the same elements.
C9_SetUnion ==
    \A k \in {PathKeys[1], SideKey} :
        (/\ MergeDone
         /\ Keys(dict1) = {k} /\ Keys(dict2) = {k}
         /\ IsSetLike(Get(dict1, k))
         /\ IsSetLike(Get(dict2, k)) \/ IsList(Get(dict2, k)))
        =>
            /\ merged.err = "none"
            /\ Keys(merged.val) = {k}
            /\ IsSetLike(Get(merged.val, k))
            /\ Get(merged.val, k).v = Get(dict1, k).v \cup Elems(Get(dict2, k))
            /\ \A S \in Leaves :
                ((IsSetLike(S) \/ IsList(S)) /\ Elems(S) = Elems(Get(dict2, k)))
                    => PyEq(merge_dicts(dict1, Dict(<< <<k, S>> >>)).val, merged.val)

\* a set merged with a sequence that repeats an element and brings a new one
C9_Witness ==
    /\ MergeDone
    /\ dict1 = Dict(<< <<SideKey, SetV({"p"})>> >>)
    /\ dict2 = Dict(<< <<SideKey, ListV(<<"q", "p", "q">>)>> >>)
    /\ Get(merged.val, SideKey) = SetV({"p", "q"})

-----------------------------------------------------------------------------
(* Properties of apply *)

\* the template of the driver's instance
Result == heap[template["P"]]

\* the hooks and stages that inst ran, in the order it ran them
EventsOf(inst) ==
    LET Mine(e) == e.who = inst
        mine == SelectSeq(log, Mine)
    IN  [k \in 1..Len(mine) |-> mine[k].what]

\* C1: on an instance on which apply() has completed, another call of apply()
\* fails with the usage error, runs no stage and no hook, and leaves the
\* document as the first call left it.
C1_SecondApplyRejected ==
    [][ /\ (stack = <<>> /\ applied["P"] /\ calls' = calls + 1) =>
            /\ phase' = "raised" /\ err' = "RuntimeError"
            /\ stack' = <<>> /\ log' = <<>>
            /\ heap' = heap /\ template' = template /\ applied' = applied
        /\ (/\ At("subtransformers")
            /\ Top.i <= Len(SelfDef.subs)
            /\ SelfDef.subs[Top.i].kind = "instance"
            /\ applied[SelfDef.subs[Top.i].inst]
            /\ stack' # stack) =>
            /\ phase' = "raised" /\ err' = "RuntimeError"
            /\ stack' = <<>> /\ log' = log
            /\ heap' = heap /\ template' = template /\ applied' = applied
      ]_vars

\* the second call on the driver's instance was rejected
C1_Witness ==
    /\ calls = 2
    /\ applied["P"]
    /\ phase = "raised"
    /\ err = "RuntimeError"
    /\ log = <<>>
    /\ Result # given

\* the order of the pipeline
PipelineOrder ==
    << "at_start", "before_subtransformers", "subtransformers", "after_subtransformers",
       "before_sections", "sections", "cleanup", "after_sections",
       "before_process_resource", "process_resource", "after_process_resource", "at_end" >>

\* what a successful apply() of inst runs: every stage, the resource pass if
\* the class has process_resource, and the hooks the class defines
ExpectedEvents(inst) ==
    LET Runs(what) ==
            \/ what \in {"subtransformers", "sections", "cleanup"}
            \/ what = "process_resource" /\ defs[inst].process_resource
            \/ what \in defs[inst].hooks
    IN  SelectSeq(PipelineOrder, Runs)

\* the instances of the subtransformers of the driver's instance, in list order
SubInsts == [k \in 1..Len(defs["P"].subs) |-> defs["P"].subs[k].inst]

\* the places in the log of the events of inst
PlacesOf(inst) == {k \in 1..Len(log) : log[k].who = inst}

\* C2: in a successful run of apply() the hooks and stages run once each in the
\* fixed order, everything the subtransformers run lies between the hook
\* before_subtransformers and the hook after_subtransformers, and a hook that
\* is not defined is skipped without changing the order of the others.
C2_PipelineOrder ==
    phase = "returned" =>
        /\ EventsOf("P") = ExpectedEvents("P")
        /\ \A k \in 1..Len(SubInsts) : EventsOf(SubInsts[k]) = ExpectedEvents(SubInsts[k])
        /\ \A k \in 1..Len(log) :
            log[k].who # "P" =>
                /\ \A j \in PlacesOf("P") :
                    log[j].what \in {"at_start", "before_subtransformers"} => j < k
                /\ \A j \in PlacesOf("P") :
                    log[j].what \notin {"at_start", "before_subtransformers"} => k < j

\* a run with every hook defined, a subtransformer and the resource pass
C2_Witness ==
    /\ phase = "returned"
    /\ defs["P"].hooks = HookNames
    /\ defs["P"].process_resource
    /\ Len(defs["P"].subs) = 1
    /\ Len(EventsOf("P")) = Len(PipelineOrder)
    /\ EventsOf("T1") # <<>>

\* the subtransformer entry whose apply() the k-th call on the stack is
EntryOf(k) == defs[stack[k - 1].inst].subs[stack[k - 1].i]

\* a subtransformer that has just been called holds the document of its caller
ThreadsDocument(k) == template[stack[k].inst] = template[stack[k - 1].inst]

\* the keys that the subtransformers of the driver's instance add to Outputs
SubOutputs == UNION {Keys(defs[SubInsts[k]].sections["Outputs"]) : k \in 1..Len(SubInsts)}

\* the subtransformers appear in the log in list order, each after the one
\* before it has finished
InListOrder ==
    \A j, k \in 1..Len(SubInsts) :
        (j < k /\ SubInsts[j] # SubInsts[k]) =>
            \A a \in PlacesOf(SubInsts[j]), b \in PlacesOf(SubInsts[k]) : a < b

\* the document of the driver's instance, once the loop over the
\* subtransformers is over, is what the last subtransformer returned
ParentHoldsLastOutput ==
    (At("after_subtransformers") /\ Self = "P" /\ SubInsts # <<>>) =>
        template["P"] = template[SubInsts[Len(SubInsts)]]

\* C3 as stated: whatever list subtransformers() returns, every subtransformer
\* gets the document the one before it returned (the first gets the parent's),
\* the parent continues with the output of the last, and two subtransformers
\* that each add a key to Outputs leave both keys in the result.
C3_EveryListThreads ==
    /\ \A k \in 2..Len(stack) : stack[k].pc = "at_start" => ThreadsDocument(k)
    /\ ParentHoldsLastOutput
    /\ (phase = "returned" /\ SubInsts # <<>>) =>
        /\ InListOrder
        /\ Has(Result, "Outputs")
        /\ SubOutputs \subseteq Keys(Get(Result, "Outputs"))

\* every subtransformer of the list was constructed on the document the parent
\* holds when it is applied: it is a class, or an instance made on the
\* template that the parent still has
OnParentsDocument ==
    \A k \in 1..Len(defs["P"].subs) :
        \/ defs["P"].subs[k].kind = "class"
        \/ /\ defs["P"].subs[k].doc = "d1"
           /\ \A j \in 1..(k - 1) :
                defs["P"].subs[j].kind = "class" \/ defs["P"].subs[j].doc = "d1"

\* C3 amended: a subtransformer given as a class is instantiated on the
\* parent's current document, one given as an instance keeps the document it
\* was constructed with; the subtransformers run in list order and the parent
\* continues with what the last one returned; when every subtransformer is a
\* class or was constructed on the parent's document, each gets the output of
\* the one before it and the keys they add to Outputs are all in the result.
C3_ClassesThread ==
    /\ \A k \in 2..Len(stack) :
        stack[k].pc = "at_start" =>
            IF EntryOf(k).kind = "class" \/ OnParentsDocument
            THEN ThreadsDocument(k)
            ELSE template[stack[k].inst] = EntryOf(k).doc
    /\ ParentHoldsLastOutput
    /\ (phase = "returned" /\ SubInsts # <<>>) => InListOrder
    /\ (phase = "returned" /\ SubInsts # <<>> /\ OnParentsDocument) =>
        /\ Has(Result, "Outputs")
        /\ SubOutputs \subseteq Keys(Get(Result, "Outputs"))

\* a class instantiated on the output of an instance that held another
\* document, and two classes whose Outputs keys are both in the result
C3_Witness ==
    \/ /\ defs["P"].subs = <<SubInstance("T1", "d2"), SubClass("T2")>>
       /\ Len(stack) = 2 /\ Self = "T2" /\ Top.pc = "at_start"
       /\ template["T2"] = "d2"
    \/ /\ defs["P"].subs = <<SubClass("T1"), SubClass("T2")>>
       /\ phase = "returned"
       /\ {"O1", "O2"} \subseteq Keys(Get(Result, "Outputs"))

\* C4: when the pipeline reaches the resource pass of a transform that defines
\* process_resource, the document has Resources as a mapping, also when it is
\* empty after the section merge, and apply() does not fail there.
C4_ResourcesPresentForPass ==
    /\ (At("process_resource") /\ SelfDef.process_resource) =>
        (Has(SelfTemplate, "Resources") /\ IsDict(Get(SelfTemplate, "Resources")))
    /\ ~(phase = "raised" /\ err = "KeyError")

\* the driver's instance overrides nothing
DefinesNothing == defs["P"] = BaseDef

FieldSet == {dict_fields[i] : i \in 1..Len(dict_fields)}

-----------------------------------------------------------------------------
(* Properties of map *)

\* the resource pass has run to its end
PassDone == mp.state = "done"

\* the logical ids of the mapping the pass started on, in its order
StartIds == [k \in 1..Len(mp.start.v) |-> mp.start.v[k][1]]

\* the resource of the starting mapping matches the type spec of the class
StartMatches(id) ==
    resource_type_matches(Get(Get(mp.start, id), "Type"), defs["P"].spec).val

\* the logical ids f was called with, in the order of the calls
Visited == [k \in 1..Len(mp.fcalls) |-> mp.fcalls[k].id]

\* f emptied the resource it was given under id
Emptied(id) == \E k \in 1..Len(mp.fcalls) : mp.fcalls[k].id = id /\ mp.fcalls[k].o.clear

\* the additions f returned: <<call, logical id, resource>>
Returns ==
    UNION { IF mp.fcalls[k].o.ret = NoneV THEN {}
            ELSE {<<k, mp.fcalls[k].o.ret.v[j][1], mp.fcalls[k].o.ret.v[j][2]>> :
                    j \in 1..Len(mp.fcalls[k].o.ret.v)}
          : k \in 1..Len(mp.fcalls) }

\* f wrote to the Resources mapping itself
WroteToMapping == \E k \in 1..Len(mp.fcalls) : mp.fcalls[k].o.mut # "none"

\* what the claim says of the mapping after the pass
PassOutcome ==
    LET resources == Get(Result, "Resources")
    IN  /\ Visited = SelectSeq(StartIds, StartMatches)
        /\ \A id \in Keys(mp.start) :
            IF ~StartMatches(id)
            THEN Has(resources, id) /\ Get(resources, id) = Get(mp.start, id)
            ELSE IF Emptied(id) THEN ~Has(resources, id)
            ELSE Has(resources, id)
        /\ \A r \in Returns : Has(resources, r[2]) /\ PyEq(Get(resources, r[2]), r[3])

\* C8 as stated: for every mapping, spec and f, after the pass the mapping
\* holds every non-matching resource unchanged, no matching resource that f
\* emptied, every matching resource f did not empty, and every addition.
C8_PassOutcomeAlways == PassDone => PassOutcome

\* the logical ids of the additions are new to the mapping and no two calls of
\* f return the same one
FreshAdditions ==
    /\ \A r \in Returns : r[2] \notin Keys(mp.start)
    /\ \A r, q \in Returns : r[2] = q[2] => r[1] = q[1]

\* every resource of the mapping the pass started on has a Type
WellFormedStart == \A id \in Keys(mp.start) : Has(Get(mp.start, id), "Type")

\* C8 amended: for a mapping of resources that each have a Type, when f leaves
\* the mapping itself alone and the logical ids of its additions are new and
\* distinct, f is called once on each matching resource and on no other, and
\* after the pass the mapping holds every non-matching resource unchanged, no
\* resource that f emptied, every matching resource f did not empty, and every
\* addition; the pass fails only if the type spec cannot be evaluated.
C8_PassOutcomeFresh ==
    /\ (PassDone /\ WellFormedStart /\ FreshAdditions /\ ~WroteToMapping) => PassOutcome
    /\ (mp.state = "failed" /\ WellFormedStart /\ FreshAdditions /\ ~WroteToMapping) =>
        \E id \in Keys(mp.start) :
            resource_type_matches(Get(Get(mp.start, id), "Type"), defs["P"].spec).err # "none"

\* R1 of type AX emptied with the addition R3, R2 of type AY, spec "AX": the
\* result is R2 and R3
C8_Witness ==
    /\ PassDone
    /\ defs["P"].spec = StrV("AX")
    /\ mp.start = Dict(<< <<"R1", ResourceOf("AX")>>, <<"R2", ResourceOf("AY")>> >>)
    /\ Visited = <<"R1">>
    /\ mp.fcalls[1].o = [clear |-> TRUE, ret |-> Dict(<< <<"R3", ResourceOf("Z")>> >>),
                         mut |-> "none"]
    /\ Get(Result, "Resources")
        = Dict(<< <<"R2", ResourceOf("AY")>>, <<"R3", ResourceOf("Z")>> >>)

\* C10: when f adds or deletes entries of the Resources mapping while the pass
\* runs, the pass still visits the pairs it started with and does not fail
\* because of the change.
C10_StableSnapshot ==
    WroteToMapping =>
        /\ ~(mp.state = "failed" /\ err = "RuntimeError")
        /\ mp.state \in {"iterating", "done"}
        /\ PassDone => Visited = SelectSeq(StartIds, StartMatches)

-----------------------------------------------------------------------------
(* Properties of the applied flag and of the Transform field *)

\* C11: the instance is marked as applied before the hook at_end runs: whenever
\* update_at_end is about to be invoked, self.applied is already true.
C11_AppliedBeforeAtEnd ==
    (At("at_end") /\ "at_end" \in SelfDef.hooks) => applied[Self]

\* the Transform entries of a document: none if absent, one for a plain string
TransformEntries(doc) ==
    IF ~Has(doc, "Transform") THEN <<>>
    ELSE IF Get(doc, "Transform").t = "str" THEN <<Get(doc, "Transform").v>>
    ELSE Get(doc, "Transform").v

\* what the value returned by Transform() brings: one entry for a string
ProvidedEntries(transforms) ==
    IF transforms.t = "str" THEN <<transforms.v>> ELSE transforms.v

\* C12: for a document whose Transform is absent, a plain string or a list of
\* strings, a non-empty value returned by Transform() never makes apply() fail,
\* and the Transform step leaves a list made of the entries the document had
\* followed by the entries returned; an absent or empty value returned leaves
\* Transform as it was.
C12_TransformAppended ==
    [][ At("sections") =>
          LET before == SelfTemplate
              after == heap'[template[Self]]
              transforms == SelfDef.transforms
          IN  IF Falsy(transforms)
              THEN /\ Has(after, "Transform") <=> Has(before, "Transform")
                   /\ Has(before, "Transform") =>
                        Get(after, "Transform") = Get(before, "Transform")
              ELSE /\ err' # "AttributeError"
                   /\ Has(after, "Transform")
                   /\ Get(after, "Transform")
                        = ListV(TransformEntries(before) \o ProvidedEntries(transforms))
      ]_vars

-----------------------------------------------------------------------------
(* Properties of the cleanup step *)

\* the fields the cleanup step is stated for
CleanedFields ==
    {"Metadata", "Parameters", "Mappings", "Conditions", "Outputs", "Description", "Transform"}

\* the class gives nothing for the field
ReceivesNothing(def, f) ==
    CASE f = "Description" -> def.desc = NoneV
      [] f = "Transform" -> Falsy(def.transforms)
      [] OTHER -> def.sections[f] = EmptyDict

\* C13: immediately after the cleanup step none of Metadata, Parameters,
\* Mappings, Conditions, Outputs, Description, Transform is in the document
\* with an empty value: a field that was absent or empty in the input and got
\* nothing from its method is absent, and a field with a non-empty value is
\* kept unchanged.
C13_NoEmptyFieldAfterCleanup ==
    [][ At("cleanup") =>
          LET before == SelfTemplate
              after == heap'[template[Self]]
          IN  /\ \A f \in CleanedFields : Has(after, f) => ~Falsy(Get(after, f))
              /\ \A f \in CleanedFields :
                    (Has(before, f) /\ ~Falsy(Get(before, f))) =>
                        (Has(after, f) /\ Get(after, f) = Get(before, f))
              /\ (Self = "P" /\ calls = 1 /\ SelfDef.subs = <<>>) =>
                    \A f \in CleanedFields :
                        (/\ ~Has(given, f) \/ Falsy(Get(given, f))
                         /\ ReceivesNothing(SelfDef, f)) => ~Has(after, f)
      ]_vars

\* the input had an empty Description, an empty Transform and a Metadata with
\* an entry: after the cleanup the first two are gone and Metadata is as it was
C13_Witness ==
    /\ At("after_sections") /\ Self = "P" /\ calls = 1
    /\ Has(given, "Description") /\ Falsy(Get(given, "Description"))
    /\ Has(given, "Transform") /\ Falsy(Get(given, "Transform"))
    /\ Has(given, "Metadata") /\ ~Falsy(Get(given, "Metadata"))
    /\ ~Has(SelfTemplate, "Description")
    /\ ~Has(SelfTemplate, "Transform")
    /\ Get(SelfTemplate, "Metadata") = Get(given, "Metadata")

-----------------------------------------------------------------------------
(* Properties of resource_type_matches *)

\* the variants of a type spec that resource_type_matches knows
Recognized(spec) == spec.t \in {"none", "str", "regex", "callable", "list"}

\* a spec that is not a collection matches the type
PlainMatch(type, spec) ==
    CASE spec.t = "none" -> TRUE
      [] spec.t = "str" -> type.v = spec.v
      [] spec.t = "regex" -> Search(spec.v, Spelling[type.v])
      [] spec.t = "callable" -> type.v \in spec.v
      [] OTHER -> FALSE

\* the members of a collection that match the type
MatchingMembers(type, specs) ==
    {i \in 1..Len(specs) : Recognized(specs[i]) /\ PlainMatch(type, specs[i])}

\* the evaluation of a collection gets to an unrecognized member: none of the
\* members before it matches
ReachesUnrecognized(type, specs) ==
    \E u \in 1..Len(specs) :
        /\ ~Recognized(specs[u])
        /\ \A j \in 1..(u - 1) : j \notin MatchingMembers(type, specs)

\* the unknown-spec error
FailsAsUnknown == [err |-> "TypeError", val |-> FALSE]

\* what the claim says resource_type_matches gives
ExpectedMatch(type, spec) ==
    IF ~Recognized(spec) THEN FailsAsUnknown
    ELSE IF spec.t # "list" THEN Answer(PlainMatch(type, spec))
    ELSE IF ReachesUnrecognized(type, spec.v) THEN FailsAsUnknown
    ELSE Answer(MatchingMembers(type, spec.v) # {})

\* C14: an absent spec matches every type; a collection matches a type iff one
\* of its members does, and an empty collection matches nothing; when the
\* evaluation gets to a spec of an unrecognized variant, at top level or as a
\* member of a collection, it fails with the unknown-spec error and the
\* resource is not taken for a non-match: the pass stops with that error.
C14_MatchOrUnknownSpec ==
    [][ (/\ At("map")
         /\ Len(MapResources.v) = mp.used
         /\ mp.pos <= Len(MapResources.v)
         /\ Has(MapResources.v[mp.pos][2], "Type")) =>
          LET type == Get(MapResources.v[mp.pos][2], "Type")
              spec == SelfDef.spec
              m == resource_type_matches(type, spec)
          IN  /\ m = ExpectedMatch(type, spec)
              /\ spec = NoneV => m = Answer(TRUE)
              /\ spec = ListV(<<>>) => m = Answer(FALSE)
              /\ IF m.err # "none"
                 THEN phase' = "raised" /\ err' = "TypeError" /\ mp'.fcalls = mp.fcalls
                 ELSE /\ phase' = phase
                      /\ Len(mp'.fcalls) = Len(mp.fcalls) + (IF m.val THEN 1 ELSE 0)
      ]_vars

\* a collection whose second member is unrecognized: the resource of type AX
\* matched the first member and was visited, the resource of type AY got to
\* the unrecognized member and the pass failed
C14_Witness ==
    /\ defs["P"].spec = ListV(<<StrV("AX"), IntV(5)>>)
    /\ mp.state = "failed"
    /\ phase = "raised" /\ err = "TypeError"
    /\ Visited = <<"R1">>
    /\ mp.pos = 2

-----------------------------------------------------------------------------
(* Properties of a merge that stops at a conflict *)

\* the dict field of a document, or the empty mapping it is initialized to
FieldOf(doc, f) == IF Has(doc, f) THEN Get(doc, f) ELSE EmptyDict

\* the merge of B into A fails at key k of B
KeyConflicts(A, B, k) ==
    /\ Has(A, k)
    /\ ~NonConflicting(Dict(<< <<k, Get(A, k)>> >>), Dict(<< <<k, Get(B, k)>> >>))

\* the place in B of the first key at which the merge of B into A fails
FirstConflict(A, B) ==
    CHOOSE i \in 1..Len(B.v) :
        /\ KeyConflicts(A, B, B.v[i][1])
        /\ \A j \in 1..(i - 1) : ~KeyConflicts(A, B, B.v[j][1])

\* R is A after a merge of B that stopped at its first conflict: the keys of B
\* before it are merged, the keys after it are not, at every level
RECURSIVE StoppedAt(_, _, _)
StoppedAt(R, A, B) ==
    LET c == FirstConflict(A, B)
        kc == B.v[c][1]
        earlier == {B.v[j][1] : j \in 1..(c - 1)}
    IN  /\ IsDict(R)
        /\ Keys(R) = Keys(A) \cup earlier
        /\ \A k \in Keys(A) \ (earlier \cup {kc}) : Get(R, k) = Get(A, k)
        /\ \A k \in earlier :
            IF ~Has(A, k) THEN Get(R, k) = Get(B, k)
            ELSE IsUnionOf(Dict(<< <<k, Get(R, k)>> >>),
                           Dict(<< <<k, Get(A, k)>> >>), Dict(<< <<k, Get(B, k)>> >>))
        /\ IF IsDict(Get(A, kc)) /\ IsDict(Get(B, kc))
           THEN StoppedAt(Get(R, kc), Get(A, kc), Get(B, kc))
           ELSE Get(R, kc) = Get(A, kc)

\* C15: a merge conflict is a hard stop. When the merge of a section into its
\* dict field fails at a key, the keys of the source before that key are merged
\* into the target and no key after it is, at any nesting level; the dict
\* fields before the failing one are merged, the dict fields after it are as
\* they were, and no later hook or stage of apply() runs.
C15_ConflictStops ==
    [][ /\ (At("sections") /\ phase' = "raised" /\ err' = "TypeError") =>
            LET before == SelfTemplate
                after == heap'[template[Self]]
                value(i) == SelfDef.sections[dict_fields[i]]
                Stops(i) == ~NonConflicting(FieldOf(before, dict_fields[i]), value(i))
            IN  /\ \E i \in 1..Len(dict_fields) : Stops(i)
                /\ LET c == CHOOSE i \in 1..Len(dict_fields) :
                                Stops(i) /\ \A j \in 1..(i - 1) : ~Stops(j)
                   IN  /\ \A i \in 1..(c - 1) :
                            /\ Has(after, dict_fields[i])
                            /\ IsUnionOf(Get(after, dict_fields[i]),
                                         FieldOf(before, dict_fields[i]), value(i))
                       /\ Has(after, dict_fields[c])
                       /\ StoppedAt(Get(after, dict_fields[c]),
                                    FieldOf(before, dict_fields[c]), value(c))
                       /\ \A i \in (c + 1)..Len(dict_fields) :
                            /\ Has(after, dict_fields[i]) <=> Has(before, dict_fields[i])
                            /\ Has(before, dict_fields[i]) =>
                                Get(after, dict_fields[i]) = Get(before, dict_fields[i])
                /\ log' = Append(log, Event(Self, "sections"))
        /\ phase' = "raised" => stack' = <<>>
      ]_vars

\* the merge of Mappings failed at n0 under e0: e1 and n1, before it, are in
\* the document, n2 and e2, after it, are not; Metadata was merged, Outputs was
\* not, and the last thing that ran is the section stage
C15_Witness ==
    /\ phase = "raised" /\ err = "TypeError" /\ calls = 1
    /\ defs["P"].sections = StoppingSections
    /\ defs["P"].hooks = HookNames
    /\ Get(Result, "Mappings")
        = Dict(<< <<"e0", Dict(<< <<"n0", IntV(1)>>, <<"n1", IntV(5)>> >>)>>,
                  <<"e1", IntV(1)>> >>)
    /\ Has(Get(Result, "Metadata"), "e1")
    /\ ~Has(Get(Result, "Outputs"), "OP")
    /\ EventsOf("P") = << "at_start", "before_subtransformers", "subtransformers",
                          "after_subtransformers", "before_sections", "sections" >>

-----------------------------------------------------------------------------
(* Properties of the additions of map *)

\* the logical ids of the additions f has returned
ReturnedIds == {r[2] : r \in Returns}

\* the addition under id that the latest call of f returned
LatestFor(id) ==
    LET for == {r \in Returns : r[2] = id}
    IN  (CHOOSE r \in for : \A q \in for : q[1] <= r[1])[3]

\* two calls of f returned different additions under the same logical id
CollidingAdditions ==
    \E r, q \in Returns : r[1] < q[1] /\ r[2] = q[2] /\ r[3] # q[3]

\* C16: when f returns additions with the same logical id for two visited
\* resources, the accumulated additions hold the value returned for the one
\* visited later, whole (the earlier value is overwritten, not merged into it
\* and not reported as a conflict), and that value is what is merged into the
\* Resources mapping.
C16_LaterAdditionWins ==
    /\ mp.state # "idle" =>
        /\ Keys(mp.add) = ReturnedIds
        /\ \A id \in ReturnedIds : Get(mp.add, id) = LatestFor(id)
    /\ (PassDone /\ ~WroteToMapping) =>
        \A id \in ReturnedIds :
            (id \notin Keys(mp.start) \/ Emptied(id)) =>
                /\ Has(Get(Result, "Resources"), id)
                /\ Get(Get(Result, "Resources"), id) = LatestFor(id)

\* f returned R3 of type Z for R1 and R3 of type W for R2: the mapping has R3
\* of type W
C16_Witness ==
    /\ PassDone
    /\ CollidingAdditions
    /\ Visited = <<"R1", "R2">>
    /\ mp.fcalls[1].o.ret = Dict(<< <<"R3", ResourceOf("Z")>> >>)
    /\ mp.fcalls[2].o.ret = Dict(<< <<"R3", ResourceOf("W")>> >>)
    /\ mp.add = Dict(<< <<"R3", ResourceOf("W")>> >>)
    /\ Get(Get(Result, "Resources"), "R3") = ResourceOf("W")

-----------------------------------------------------------------------------
(* Properties of a failed apply *)

\* C17: when apply() fails with an error raised inside the pipeline, the
\* applied flag of the instance is still false afterwards, and a later apply()
\* on the same instance is not rejected: it runs the pipeline again, on the
\* document as the failed call left it.
C17_FailedApplyNotMarked ==
    [][ /\ (phase = "running" /\ phase' = "raised") =>
            \A k \in 1..Len(stack) : ~applied'[stack[k].inst]
        /\ (phase = "raised" /\ ~applied["P"] /\ calls' = calls + 1) =>
            /\ phase' = "running" /\ err' = "none"
            /\ stack' = <<Frame("P")>>
            /\ heap' = heap /\ template' = template
      ]_vars

\* the first call failed after it had changed the document; the second call
\* has been accepted and is at its first step on that document
C17_Witness ==
    /\ calls = 2
    /\ phase = "running"
    /\ stack = <<Frame("P")>>
    /\ ~applied["P"]
    /\ Result # given

-----------------------------------------------------------------------------
(* Properties of the order of deletions and additions in map *)

\* the mapping with only the entry of id
Only(d, id) == Dict(<< <<id, Get(d, id)>> >>)

\* map() failed in its last statement, the merge of the additions
MergeOfAdditionsFailed ==
    /\ mp.state = "failed" /\ err = "TypeError"
    /\ log # <<>> /\ log[Len(log)] = Event("P", "process_resource")

\* C18: the deletions of the pass are done before the additions are merged.
\* When f empties resource L and an addition has the logical id L, the mapping
\* ends with L holding exactly the added definition, without a conflict and
\* without the addition being deleted; an addition under the logical id of a
\* resource that was not removed is deep-merged into that resource.
C18_DeletionsBeforeAdditions ==
    /\ (PassDone /\ ~WroteToMapping) =>
        \A id \in Keys(mp.add) :
            LET resources == Get(Result, "Resources")
            IN  /\ Has(resources, id)
                /\ IF Emptied(id) THEN Get(resources, id) = Get(mp.add, id)
                   ELSE Has(mp.start, id) =>
                        IsUnionOf(Only(resources, id), Only(mp.start, id), Only(mp.add, id))
    /\ (MergeOfAdditionsFailed /\ ~WroteToMapping) =>
        \E id \in Keys(mp.add) :
            /\ Has(mp.start, id)
            /\ ~Emptied(id)
            /\ KeyConflicts(mp.start, mp.add, id)

\* f emptied R1 and returned a new R1 of type Z, and returned for R2 an
\* addition under R2 itself: the mapping has R1 as added and R2 with the added
\* entry merged in
C18_Witness ==
    /\ PassDone
    /\ Visited = <<"R1", "R2">>
    /\ Emptied("R1") /\ ~Emptied("R2")
    /\ Keys(mp.add) = {"R1", "R2"}
    /\ Get(mp.add, "R1") = ResourceOf("Z")
    /\ Keys(Get(Result, "Resources")) = {"R1", "R2"}
    /\ Get(Get(Result, "Resources"), "R1") = ResourceOf("Z")
    /\ Get(Get(Result, "Resources"), "R2")
        = Dict(<< <<"Type", StrV("AY")>>, <<"Extra", IntV(1)>> >>)

====
